---- MODULE Spec2Model ----
(***************************************************************************)
(* The sonar rock/mine prediction service (app.py) and the part of its     *)
(* smoke-test client (test_api.py) that feeds a sample back into predict.  *)
(*                                                                         *)
(* Python values are tagged records.  Finite floats are fixed-point        *)
(* integers: feature readings in ten-thousandths, class probabilities as   *)
(* numerators over ProbDen, confidence percentages in hundredths.          *)
(***************************************************************************)
EXTENDS Integers, Sequences, FiniteSets, TLC

VARIABLES
    artifact,     \* sonar_model.pkl on disk: "missing", "corrupt" or "valid"
    pc,           \* "boot" until the module-level load has run, then "serving"
    model,        \* the module global `model`
    MODEL_STATS,  \* the module global MODEL_STATS
    request,      \* the request being answered (NoRequest when idle)
    response,     \* what the handler returned for it
    calls,        \* the calls made on `model` while answering `request`
    sample_data   \* client: the sample saved by test_prediction

vars == <<artifact, pc, model, MODEL_STATS, request, response, calls, sample_data>>

-----------------------------------------------------------------------------
(* Bounds of the model *)

\* extra lengths above 60 tried for `features`
MaxExtra == 1
\* class probabilities are k / ProbDen, k in 0..ProbDen
ProbDen == 32

(* Program constants *)

\* app.py:65, the required number of readings
FeatureCount == 60
\* app.py:86, probability to percentage
Percent == 100

-----------------------------------------------------------------------------
(* Python values *)

None == "None"
Estimator == "estimator"

PyNone == [t |-> "None"]
PyNaN == [t |-> "nan"]
PyInf == [t |-> "inf"]
PyBool(b) == [t |-> "bool", b |-> b]
PyFloat(n) == [t |-> "float", n |-> n]
PyStr(s) == [t |-> "str", s |-> s]
PyList(items) == [t |-> "list", items |-> items]
PyDict(o) == [t |-> "dict", o |-> o]

EmptyDict == PyDict([k \in {} |-> PyNone])

Return(v) == [raised |-> FALSE, val |-> v]
Raise(type, msg) == [raised |-> TRUE, exc |-> [type |-> type, msg |-> msg]]

\* the exception classes that occur, with their base classes
Bases(type) ==
    CASE type = "ValueError" -> {"ValueError", "Exception"}
      [] type = "NotFittedError" -> {"NotFittedError", "ValueError", "AttributeError", "Exception"}
      [] type = "TypeError" -> {"TypeError", "Exception"}
      [] type = "RuntimeError" -> {"RuntimeError", "Exception"}
      [] OTHER -> {type, "Exception"}

IsInstance(exc, class) == class \in Bases(exc.type)

\* type(v).__name__
TypeName(v) ==
    CASE v.t = "None" -> "NoneType"
      [] v.t \in {"nan", "inf"} -> "float"
      [] OTHER -> v.t

\* bool(v): Python truth value
Truthy(v) ==
    CASE v.t = "None" -> FALSE
      [] v.t = "bool" -> v.b
      [] v.t = "float" -> v.n # 0
      [] v.t = "str" -> v.s # ""
      [] v.t = "list" -> Len(v.items) > 0
      [] v.t = "dict" -> DOMAIN v.o # {}
      [] OTHER -> TRUE

\* key in v, for the operands a request body gives it here: a dict, a list,
\* or a value that is not a container (a str operand, a substring test, is
\* not among the bodies tried)
PyIn(key, v) ==
    CASE v.t = "dict" -> Return(key \in DOMAIN v.o)
      [] v.t = "list" -> Return(\E i \in 1..Len(v.items) : v.items[i] = PyStr(key))
      [] OTHER -> Raise("TypeError", "argument of type '" \o TypeName(v) \o "' is not iterable")

\* v[key] for a string key
PyGetItem(v, key) ==
    CASE v.t = "dict" -> IF key \in DOMAIN v.o THEN Return(v.o[key])
                                                     ELSE Raise("KeyError", key)
      [] v.t = "list" -> Raise("TypeError", "list indices must be integers or slices, not str")
      [] OTHER -> Raise("TypeError", "'" \o TypeName(v) \o "' object is not subscriptable")

\* len(v)
PyLen(v) ==
    CASE v.t = "list" -> Return(Len(v.items))
      [] v.t = "str" -> Return(Len(v.s))
      [] v.t = "dict" -> Return(Cardinality(DOMAIN v.o))
      [] OTHER -> Raise("TypeError", "object of type '" \o TypeName(v) \o "' has no len()")

\* str(n) for a natural number
DigitStr(d) ==
    CASE d = 0 -> "0" [] d = 1 -> "1" [] d = 2 -> "2" [] d = 3 -> "3" [] d = 4 -> "4"
      [] d = 5 -> "5" [] d = 6 -> "6" [] d = 7 -> "7" [] d = 8 -> "8" [] d = 9 -> "9"

RECURSIVE PyStrOfInt(_)
PyStrOfInt(n) == IF n < 10 THEN DigitStr(n) ELSE PyStrOfInt(n \div 10) \o DigitStr(n % 10)

RECURSIVE Pow10(_)
Pow10(k) == IF k = 0 THEN 1 ELSE 10 * Pow10(k - 1)

\* round(x, ndigits) of the float x = num/den >= 0: the nearest multiple of
\* 10^-ndigits, ties to the even one; the result counts units of 10^-ndigits
PyRound(x, ndigits) ==
    LET scaled == x.num * Pow10(ndigits)
        q == scaled \div x.den
        r == scaled % x.den
    IN  IF 2 * r < x.den THEN q
        ELSE IF 2 * r > x.den THEN q + 1
        ELSE IF q % 2 = 0 THEN q ELSE q + 1

-----------------------------------------------------------------------------
(* numpy *)

\* float(s) for the strings that occur as readings
ParseFloat(s) ==
    CASE s = "0.5" -> Return(PyFloat(5000))
      [] s = "nan" -> Return(PyNaN)
      [] s = "inf" -> Return(PyInf)
      [] OTHER -> Raise("ValueError", "could not convert string to float")

\* one cell of np.asarray(..., dtype=float)
ToFloat(v) ==
    CASE v.t = "float" -> Return(v)
      [] v.t = "nan" -> Return(v)
      [] v.t = "inf" -> Return(v)
      [] v.t = "bool" -> Return(PyFloat(IF v.b THEN 10000 ELSE 0))
      [] v.t = "None" -> Return(PyNaN)
      [] v.t = "str" -> ParseFloat(v.s)
      [] v.t = "list" -> Raise("ValueError", "setting an array element with a sequence.")
      [] OTHER -> Raise("TypeError", "float() argument must be a string or a real number, not '"
                                     \o TypeName(v) \o "'")

SetMin(S) == CHOOSE x \in S : \A y \in S : x <= y

RECURSIVE Flatten(_)
Flatten(rows) == IF rows = <<>> THEN <<>> ELSE Head(rows).items \o Flatten(Tail(rows))

\* the cells of a sequence converted in order: the first failure is raised
ConvertCells(cells, shape) ==
    LET bad == {i \in 1..Len(cells) : ToFloat(cells[i]).raised} IN
    IF bad # {}
    THEN ToFloat(cells[SetMin(bad)])
    ELSE Return([shape |-> shape, data |-> [i \in 1..Len(cells) |-> ToFloat(cells[i]).val]])

\* np.asarray(v, dtype=float): [shape, data], data in row order.  A list whose
\* items are all lists of one length is a 2-d array; a list mixing lists with
\* scalars, or lists of different lengths, is rejected with ValueError.
np_asarray(v) ==
    IF v.t # "list" THEN ConvertCells(<<v>>, <<>>)
    ELSE
      LET items == v.items
          n == Len(items)
          nested == {i \in 1..n : items[i].t = "list"}
      IN  IF nested = {} THEN ConvertCells(items, <<n>>)
          ELSE IF nested # 1..n
                  \/ \E i, j \in nested : Len(items[i].items) # Len(items[j].items)
          THEN Raise("ValueError", "setting an array element with a sequence.")
          ELSE ConvertCells(Flatten(items), <<n, Len(items[1].items)>>)

\* a.reshape(1, -1)
reshape_row(a) == [shape |-> <<1, Len(a.data)>>, data |-> a.data]

-----------------------------------------------------------------------------
(* app.py: responses *)

NoRequest == [op |-> "idle"]
NoResponse == [status |-> 0, body |-> [idle |-> TRUE]]
NoSample == [type |-> "none"]

\* jsonify(body), status
Reply(body, status) == [status |-> status, body |-> body]

ErrorBody(error, message) == [error |-> error, message |-> message]

MissingInput ==
    Reply(ErrorBody("No features provided", "Please provide 60 sonar readings"), 400)

InvalidLength(n) ==
    Reply(ErrorBody("Invalid input length",
                    "Expected 60 features, got " \o PyStrOfInt(n)), 400)

ModelUnavailable ==
    Reply(ErrorBody("Model not loaded",
                    "Please ensure sonar_model.pkl is in the correct directory"), 500)

NonNumericInput ==
    Reply(ErrorBody("Invalid input values", "All features must be numeric values"), 400)

PredictionFailed(exc) == Reply(ErrorBody("Prediction failed", exc.msg), 500)

\* the except clauses of predict, tried in order
predict_except(exc) ==
    IF IsInstance(exc, "ValueError") THEN NonNumericInput
    ELSE PredictionFailed(exc)

-----------------------------------------------------------------------------
(* app.py: predict *)

LengthIsValid(n) == n = FeatureCount

\* the bug where the absent model is not checked for
ModelIsMissingNever(m) == FALSE

ModelIsMissing(m) == m = None

\* Everything predict does before it touches the model.
\* Returns [done, response] when it answers, [done, input] when it goes on.
predict_input(data, m) ==
    LET answer(r) == [done |-> TRUE, response |-> r]
        except(x) == answer(predict_except(x.exc))
        absent == PyIn("features", data)
        features == PyGetItem(data, "features")
        length == PyLen(features.val)
        input_array == np_asarray(features.val)
    IN  IF ~Truthy(data) THEN answer(MissingInput)
        ELSE IF absent.raised THEN except(absent)
        ELSE IF ~absent.val THEN answer(MissingInput)
        ELSE IF features.raised THEN except(features)
        ELSE IF length.raised THEN except(length)
        ELSE IF ~LengthIsValid(length.val) THEN answer(InvalidLength(length.val))
        ELSE IF input_array.raised THEN except(input_array)
        ELSE IF ModelIsMissing(m) THEN answer(ModelUnavailable)
        ELSE [done |-> FALSE, input |-> reshape_row(input_array.val)]

\* m.predict(x) / m.predict_proba(x): the estimator is opaque, `outcome` is
\* what it does this time; None has no such attribute.
model_call(m, outcome) ==
    IF m = None
    THEN Raise("AttributeError", "'NoneType' object has no attribute")
    ELSE outcome

Called(m, op, out) == IF m = None THEN <<>> ELSE <<[op |-> op, out |-> out]>>

\* the bug where both confidences read column 0
rock_probability_col0(proba) == [num |-> proba[1] * Percent, den |-> ProbDen]

\* float(prediction_proba[0][1]) * 100 and float(prediction_proba[0][0]) * 100
rock_probability(proba) == [num |-> proba[2] * Percent, den |-> ProbDen]
mine_probability(proba) == [num |-> proba[1] * Percent, den |-> ProbDen]

\* the bug where the label tests for 'M' while the message tests for 'R'
prediction_label_testsM(code) == IF code = "M" THEN "Mine" ELSE "Rock"

prediction_label(code) == IF code = "R" THEN "Rock" ELSE "Mine"

result(code, proba) ==
    [prediction |-> code,
     prediction_label |-> prediction_label(code),
     confidence |-> [rock |-> PyRound(rock_probability(proba), 2),
                     mine |-> PyRound(mine_probability(proba), 2)],
     message |-> "The object is a " \o (IF code = "R" THEN "Rock" ELSE "Mine")]

\* The rest of predict: the two calls on the model and the result.
predict_infer(input, m, oracle) ==
    LET p == model_call(m, oracle.predict)
        c1 == Called(m, "predict", p)
        q == model_call(m, oracle.predict_proba)
        c2 == c1 \o Called(m, "predict_proba", q)
    IN  IF p.raised THEN [response |-> predict_except(p.exc), calls |-> c1]
        ELSE IF q.raised THEN [response |-> predict_except(q.exc), calls |-> c2]
        ELSE [response |-> Reply(result(p.val, q.val), 200), calls |-> c2]

-----------------------------------------------------------------------------
(* app.py: get_stats, get_sample, health_check, home *)

\* the dict literal bound to MODEL_STATS; accuracies in hundredths of a percent
StatsLiteral ==
    [training_accuracy |-> 8342, test_accuracy |-> 7619, total_samples |-> 208,
     training_samples |-> 187, test_samples |-> 21, features |-> 60,
     rock_samples |-> 97, mine_samples |-> 111]

get_stats(stats) == Reply(stats, 200)

rock_sample ==
    << 409, 421, 573, 130, 183, 1019, 1054, 1070, 2302, 2259,
       2373, 3323, 3827, 4840, 6812, 7555, 9522, 9826, 8871, 8268,
       7561, 8217, 6967, 6444, 6948, 8014, 6053, 6084, 8877, 8557,
       5563, 2897, 3638, 4786, 2908, 899, 2043, 1707, 407, 1286,
       1581, 2191, 1701, 971, 2217, 2732, 1874, 1062, 665, 405,
       113, 28, 36, 105, 120, 87, 61, 61, 30, 78 >>

mine_sample ==
    << 200, 371, 428, 207, 954, 986, 1539, 1601, 3109, 2111,
       1609, 1582, 2238, 645, 660, 2273, 3100, 2999, 5078, 4797,
       5783, 5071, 4328, 5550, 6711, 6415, 7104, 8080, 6791, 3857,
       1307, 2604, 5121, 7547, 8537, 8507, 6692, 6097, 4943, 2744,
       510, 2834, 2825, 4256, 2641, 1386, 1051, 1343, 383, 324,
       232, 27, 65, 159, 72, 167, 180, 84, 90, 32 >>

\* a Python list of floats as it travels in a JSON body
FloatList(xs) == PyList([i \in 1..Len(xs) |-> PyFloat(xs[i])])

\* str.lower() on a string held as a tuple of characters
LowerChar(c) ==
    CASE c = "R" -> "r" [] c = "O" -> "o" [] c = "C" -> "c" [] c = "K" -> "k"
      [] c = "M" -> "m" [] c = "I" -> "i" [] c = "N" -> "n" [] c = "E" -> "e"
      [] c = "S" -> "s" [] c = "T" -> "t" [] c = "H" -> "h"
      [] OTHER -> c

lower(s) == [i \in 1..Len(s) |-> LowerChar(s[i])]

Rock == <<"r", "o", "c", "k">>
Mine == <<"m", "i", "n", "e">>

\* the bug where the kind is compared as given
SampleKeyAsGiven(sample_type) == sample_type

SampleKey(sample_type) == lower(sample_type)

get_sample(sample_type) ==
    IF SampleKey(sample_type) = Rock
    THEN Reply([type |-> "rock", features |-> FloatList(rock_sample), label |-> "R"], 200)
    ELSE IF SampleKey(sample_type) = Mine
    THEN Reply([type |-> "mine", features |-> FloatList(mine_sample), label |-> "M"], 200)
    ELSE Reply(ErrorBody("Invalid sample type", "Use \"rock\" or \"mine\""), 400)

\* the bug where health always reports a model
model_loaded_always(m) == TRUE

model_loaded(m) == m # None

health_check(m) ==
    Reply([status |-> "healthy", model_loaded |-> model_loaded(m), version |-> "1.0.0"], 200)

home == Reply([template |-> "index.html"], 200)

-----------------------------------------------------------------------------
(* Requests tried *)

Lengths == {0, 3} \cup ((FeatureCount - 1)..(FeatureCount + MaxExtra))

Reading == PyFloat(409)
Nested1 == PyList(<<PyFloat(10000)>>)
Nested2 == PyList(<<PyFloat(10000), PyFloat(20000)>>)

BaseElems == {Reading, PyStr("a"), PyNone, Nested1}

Elems ==
    {Reading, PyFloat(0), PyStr("a"), PyStr("0.5"), PyStr("nan"), PyNone, PyNaN, PyInf,
     PyBool(TRUE), Nested1, Nested2, EmptyDict}

Fill(n, e) == [i \in 1..n |-> e]

\* n copies of one element, and the same with one element replaced at an end.
\* (A dict among nested lists is left out: which error numpy reports first
\* for it differs between numpy versions.)
Vectors ==
    {Fill(n, b) : n \in Lengths, b \in BaseElems}
    \cup UNION {{[Fill(n, b) EXCEPT ![p] = e] : p \in {1, n}} :
                  <<n, b, e>> \in {x \in (Lengths \ {0}) \X BaseElems \X Elems :
                                     ~(x[2].t = "list" /\ x[3].t = "dict")}}

FeatureValues ==
    {PyNone, PyFloat(55000), PyStr("abc")} \cup {PyList(v) : v \in Vectors}

\* what request.get_json() can return
PredictBodies ==
    {PyNone, EmptyDict, PyList(<<>>), PyList(<<PyStr("features")>>), PyFloat(0),
     PyFloat(55000), PyBool(TRUE), PyDict("x" :> PyFloat(10000))}
    \cup {PyDict("features" :> f) : f \in FeatureValues}

Codes == {"R", "M", "X"}

ModelErrors ==
    {Raise("ValueError", "Input contains NaN."),
     Raise("NotFittedError", "This instance is not fitted yet."),
     Raise("RuntimeError", "inference failed")}

\* <<P(class 0), P(class 1)>> as numerators over ProbDen
ProbaPairs ==
    {<<ProbDen - k, k>> : k \in 0..ProbDen} \cup {<<0, 0>>, <<ProbDen, ProbDen>>}

Oracles ==
    [predict : {Return(c) : c \in Codes} \cup ModelErrors,
     predict_proba : {Return(pp) : pp \in ProbaPairs} \cup ModelErrors]

Upper(c) == CHOOSE u \in {"R", "O", "C", "K", "M", "I", "N", "E", "S", "T", "H"} : LowerChar(u) = c

Words ==
    {Rock, Mine, <<"r", "o", "c">>, <<"r", "o", "c", "k", "s">>,
     <<"o", "t", "h", "e", "r">>, <<"m", "i", "n", "e", "r">>}

\* every casing of every word
SampleTypes ==
    UNION {{[i \in 1..Len(w) |-> IF i \in up THEN Upper(w[i]) ELSE w[i]] :
              up \in SUBSET (1..Len(w))} : w \in Words}

-----------------------------------------------------------------------------
(* The service *)

Init ==
    /\ artifact \in {"missing", "corrupt", "valid"}
    /\ pc = "boot"
    /\ model = "unbound"
    /\ MODEL_STATS = <<>>
    /\ request = NoRequest
    /\ response = NoResponse
    /\ calls = <<>>
    /\ sample_data = NoSample

\* pickle.load(open(model_path)): an exception leaves model = None
load_model(file) == IF file = "valid" THEN Estimator ELSE None

\* module import: the try/except around the load, then the MODEL_STATS literal
Startup ==
    /\ pc = "boot"
    /\ model' = load_model(artifact)
    /\ MODEL_STATS' = StatsLiteral
    /\ pc' = "serving"
    /\ UNCHANGED <<artifact, request, response, calls, sample_data>>

Idle == pc = "serving" /\ request = NoRequest

Handle(req, resp, called) ==
    /\ request' = req
    /\ response' = resp
    /\ calls' = called
    /\ UNCHANGED <<artifact, pc, model, MODEL_STATS, sample_data>>

PredictWith(data) ==
    LET v == predict_input(data, model)
        req == [op |-> "predict", data |-> data]
    IN  \/ /\ v.done
           /\ Handle(req, v.response, <<>>)
        \/ /\ ~v.done
           /\ \E oracle \in Oracles :
                LET h == predict_infer(v.input, model, oracle)
                IN  Handle(req, h.response, h.calls)

\* POST /api/predict
Predict == Idle /\ \E data \in PredictBodies : PredictWith(data)

\* test_prediction: post the saved sample's features unchanged
PredictSample ==
    /\ Idle
    /\ sample_data # NoSample
    /\ PredictWith(PyDict("features" :> sample_data.features))

\* GET /api/stats
GetStats == Idle /\ Handle([op |-> "stats"], get_stats(MODEL_STATS), <<>>)

\* GET /api/sample/<sample_type>
GetSample ==
    /\ Idle
    /\ \E sample_type \in SampleTypes :
         Handle([op |-> "sample", sample_type |-> sample_type], get_sample(sample_type), <<>>)

\* GET /api/health
HealthCheck == Idle /\ Handle([op |-> "health"], health_check(model), <<>>)

\* GET /
Home == Idle /\ Handle([op |-> "home"], home, <<>>)

\* test_sample_endpoint: the client reads the response; a body without the
\* sample's fields makes it return None
saved_sample(req, resp, old) ==
    IF req.op # "sample" THEN old
    ELSE IF {"type", "features", "label"} \subseteq DOMAIN resp.body THEN resp.body
    ELSE NoSample

\* the client has the response and the request is over
Respond ==
    /\ pc = "serving"
    /\ request # NoRequest
    /\ sample_data' = saved_sample(request, response, sample_data)
    /\ request' = NoRequest
    /\ response' = NoResponse
    /\ calls' = <<>>
    /\ UNCHANGED <<artifact, pc, model, MODEL_STATS>>

Next ==
    \/ Startup
    \/ Predict
    \/ PredictSample
    \/ GetStats
    \/ GetSample
    \/ HealthCheck
    \/ Home
    \/ Respond

Spec == Init /\ [][Next]_vars

-----------------------------------------------------------------------------
(* Vocabulary of the claims *)

IsPredict == request.op = "predict"

HasFeaturesField(data) == data.t = "dict" /\ "features" \in DOMAIN data.o

Features == request.data.o["features"]

HasFeatureList == IsPredict /\ HasFeaturesField(request.data) /\ Features.t = "list"

\* v is, or is text that reads as, a finite real number
IsFiniteReal(v) ==
    \/ v.t \in {"float", "bool"}
    \/ v.t = "str" /\ v.s \in {"0.5"}

IsError(resp, kind) == "error" \in DOMAIN resp.body /\ resp.body.error = kind

\* the request got through the code's three checks: present, 60 long, converted
PassedValidation ==
    /\ HasFeatureList
    /\ Len(Features.items) = FeatureCount
    /\ ~np_asarray(Features).raised

SomeCallRaised == \E i \in 1..Len(calls) : calls[i].out.raised

IsCasingOf(s, w) ==
    /\ Len(s) = Len(w)
    /\ \A i \in 1..Len(w) : s[i] \in {w[i], Upper(w[i])}

IsSampleRoundTrip ==
    /\ IsPredict
    /\ request.data \in {PyDict("features" :> FloatList(rock_sample)),
                         PyDict("features" :> FloatList(mine_sample))}

-----------------------------------------------------------------------------
(* The claims *)

\* C1: predict checks presence, then length, then numbers.  A body with no
\* features field is answered MissingInput/400; a features of length n # 60 is
\* answered InvalidLength/400 naming 60 and n whatever its elements are; only a
\* features of length 60 gets as far as the numeric check.
C1_ChecksInOrder ==
    IsPredict =>
        /\ ~HasFeaturesField(request.data) => response = MissingInput
        /\ HasFeaturesField(request.data) /\ ~PyLen(Features).raised
             /\ PyLen(Features).val # FeatureCount
             => response = InvalidLength(PyLen(Features).val)
        /\ response = NonNumericInput
             => HasFeaturesField(request.data) /\ PyLen(Features) = Return(FeatureCount)

\* C2: a features of exactly 60 elements, one of which is not a finite real
\* number, is answered NonNumericInput/400 and yields no prediction result.
C2_NonNumericRejected ==
    (/\ HasFeatureList
     /\ Len(Features.items) = FeatureCount
     /\ \E i \in 1..FeatureCount : ~IsFiniteReal(Features.items[i]))
    => response = NonNumericInput

\* C3 as stated: while the model is absent every predict request, valid or
\* not, is answered ModelUnavailable/500.
C3_AbsentModelAlwaysUnavailable ==
    IsPredict /\ model = None => response = ModelUnavailable

\* C3 as amended: while the model is absent, every predict request that gets
\* through validation is answered ModelUnavailable/500, the model is never
\* called, and no predict request is answered 200.
C3_AbsentModelAfterValidation ==
    IsPredict /\ model = None =>
        /\ PassedValidation => response = ModelUnavailable
        /\ response.status # 200
        /\ calls = <<>>

C3_Witness ==
    /\ IsPredict /\ model = None /\ PassedValidation
    /\ response = ModelUnavailable

\* C4: for a validated request with the model present, a failure raised by
\* either call on the model is answered 500 'Prediction failed', never 400.
C4_ModelFailureIsServerError ==
    (/\ PassedValidation
     /\ \A i \in 1..FeatureCount : IsFiniteReal(Features.items[i])
     /\ model # None
     /\ SomeCallRaised)
    => response.status = 500 /\ IsError(response, "Prediction failed")

\* C5: in a successful predict response, when the model's two probabilities
\* sum to 1, the two confidences (in hundredths of a percent) sum to 100.00
\* within 0.01.
C5_ConfidenceSumsTo100 ==
    (/\ IsPredict /\ response.status = 200
     /\ calls[2].out.val[1] + calls[2].out.val[2] = ProbDen)
    => LET total == response.body.confidence.rock + response.body.confidence.mine
       IN  total - Percent * Pow10(2) \in -1..1

\* a success where both percentages fall exactly between two hundredths
C5_Witness ==
    /\ IsPredict /\ response.status = 200
    /\ calls[2].out.val[1] + calls[2].out.val[2] = ProbDen
    /\ (2 * calls[2].out.val[2] * Percent * Pow10(2)) % ProbDen = 0
    /\ (calls[2].out.val[2] * Percent * Pow10(2)) % ProbDen # 0
    /\ response.body.confidence.rock + response.body.confidence.mine = Percent * Pow10(2)

\* C6: get_sample answers every casing of 'rock' with 200, type 'rock', label
\* 'R' and the fixed rock vector of 60 values, every casing of 'mine' likewise
\* with the mine vector, and any other kind with InvalidSampleType/400,
\* whatever was requested before.
C6_GetSample ==
    request.op = "sample" =>
        LET kind == request.sample_type IN
        /\ IsCasingOf(kind, Rock) =>
             /\ response = Reply([type |-> "rock", features |-> FloatList(rock_sample),
                                  label |-> "R"], 200)
             /\ Len(response.body.features.items) = FeatureCount
        /\ IsCasingOf(kind, Mine) =>
             /\ response = Reply([type |-> "mine", features |-> FloatList(mine_sample),
                                  label |-> "M"], 200)
             /\ Len(response.body.features.items) = FeatureCount
        /\ ~IsCasingOf(kind, Rock) /\ ~IsCasingOf(kind, Mine) =>
             response.status = 400 /\ IsError(response, "Invalid sample type")

\* a mixed-case kind answered after a sample of the other kind was served
C6_Witness ==
    /\ request.op = "sample"
    /\ request.sample_type = <<"R", "o", "C", "k">>
    /\ response.status = 200
    /\ sample_data.type = "mine"

C8_OnlyNumbersReachTheModel ==
    calls # <<>> =>
        /\ HasFeatureList
        /\ Len(Features.items) = FeatureCount
        /\ \A i \in 1..FeatureCount : IsFiniteReal(Features.items[i])

\* C9: the features get_sample returned, posted back unchanged, are never
\* answered MissingInput, InvalidLength or NonNumericInput, and are answered
\* 200 when the model is present and inference does not fail.
C9_SampleRoundTrip ==
    IsSampleRoundTrip =>
        /\ response # MissingInput
        /\ ~IsError(response, "Invalid input length")
        /\ response # NonNumericInput
        /\ model # None /\ ~SomeCallRaised => response.status = 200

\* C10: in a successful predict response, prediction is the model's class
\* code, prediction_label is 'Rock' exactly for code 'R' and 'Mine' otherwise,
\* and message is 'The object is a ' followed by that label.
C10_LabelsAgree ==
    IsPredict /\ response.status = 200 =>
        LET code == calls[1].out.val
            body == response.body
        IN  /\ body.prediction = code
            /\ body.prediction_label = (IF code = "R" THEN "Rock" ELSE "Mine")
            /\ body.prediction_label \in {"Rock", "Mine"}
            /\ body.message = "The object is a " \o body.prediction_label

\* a success for a class code that is neither 'R' nor 'M'
C10_Witness ==
    /\ IsPredict /\ response.status = 200
    /\ calls[1].out.val = "X"
    /\ response.body.prediction_label = "Mine"

====
